---- MODULE Spec2Model ----
(***************************************************************************)
(* Model of the code Q&A system: the repository fetcher                    *)
(* (code_processor.py), the retrieval index builder and the query answerer *)
(* (rag_pipeline.py) and the interactive shell's session (main.py).        *)
(*                                                                         *)
(* Text is modelled as a sequence of words (punctuation is a word of its   *)
(* own), file names as sequences of characters; Python's `in` on strings   *)
(* is contiguous-subsequence, str.lower() maps every word / character.     *)
(* A file's content is a sequence of spans of code, blanks and newlines,   *)
(* each with its length in characters.                                     *)
(***************************************************************************)
EXTENDS Integers, Sequences, FiniteSets, TLC

VARIABLES
    unit,           \* which entry point is running: "setup", "query", "fetch", "session"
    \* ---- rag_pipeline.py: setup_rag_pipeline / query_codebase
    max_retries,    \* the max_retries argument
    documents_in,   \* setup: the documents argument; query: what the retriever returns
    attempt,        \* the loop variable `attempt`
    \* ---- the function call in progress (all three units)
    pc,             \* position: "probe", "store", "invoke", "run", "done"
    log,            \* the requests, calls and sleeps made so far, in order
    result,         \* what the function returned or raised
    \* ---- code_processor.py: process_github_repo
    github_token,   \* whether GITHUB_TOKEN is set in the environment
    tree,           \* the repository the hosting API serves
    stack,          \* the active process_contents calls, innermost last
    documents,      \* the local list `documents`
    \* ---- main.py: st.session_state and the widgets of the last run
    rag_pipeline,
    repo_processed,
    current_repo,
    code_documents,
    widgets,        \* the widget values of the last run of main()
    services,       \* what the hosted services answer in that run
    before          \* st.session_state as the last run of main() found it

ragVars == <<max_retries, documents_in, attempt>>
callVars == <<pc, log, result>>
fetchVars == <<github_token, tree, stack, documents>>
sessVars ==
    <<rag_pipeline, repo_processed, current_repo, code_documents, widgets, services,
      before>>
vars == <<unit, ragVars, callVars, fetchVars, sessVars>>

(***************************************************************************)
(* Bounds                                                                  *)
(***************************************************************************)
MaxRetries == 4

DefaultMaxRetries == 3

(***************************************************************************)
(* Text helpers                                                            *)
(***************************************************************************)
\* Python: pat in txt
IsSubstr(pat, txt) ==
    \E i \in 0..(Len(txt) - Len(pat)) : SubSeq(txt, i + 1, i + Len(pat)) = pat

\* the upper-case words and characters that occur, with their lower-case forms
LowerPairs ==
    { <<"API", "api">>, <<"Rate", "rate">>, <<"Limit", "limit">>,
      <<"Exceeded", "exceeded">>, <<"Not", "not">>, <<"Found", "found">>,
      <<"You", "you">>, <<"Server", "server">>, <<"Error", "error">>,
      <<"GitHub", "github">>, <<"Please", "please">>, <<"Access", "access">>,
      <<"Repository", "repository">>, <<"Failed", "failed">>, <<"HTTP", "http">>,
      <<"This", "this">>, <<"D", "d">>, <<"P", "p">>, <<"Y", "y">> }

LowerMap ==
    [w \in {q[1] : q \in LowerPairs} |-> (CHOOSE q \in LowerPairs : q[1] = w)[2]]

\* Python: txt.lower()
Lower(txt) ==
    [i \in 1..Len(txt) |-> IF txt[i] \in DOMAIN LowerMap THEN LowerMap[txt[i]] ELSE txt[i]]

\* Python: txt.startswith(pre), txt.endswith(suf)
StartsWith(txt, pre) == Len(pre) <= Len(txt) /\ SubSeq(txt, 1, Len(pre)) = pre
EndsWith(txt, suf) ==
    Len(suf) <= Len(txt) /\ SubSeq(txt, Len(txt) - Len(suf) + 1, Len(txt)) = suf

RECURSIVE Pow2(_)
\* Python: 2 ** n
Pow2(n) == IF n = 0 THEN 1 ELSE 2 * Pow2(n - 1)

(***************************************************************************)
(* The hosted embedding / answering service: the failures it can raise     *)
(***************************************************************************)
NoAccessToModel == <<"does", "not", "have", "access", "to", "model">>
NotAllowedToEmbed == <<"not", "allowed", "to", "generate", "embeddings">>

ServiceErrors ==
    { <<"Project">> \o NoAccessToModel \o <<"text-embedding-3-large">>,
      <<"You", "are">> \o NotAllowedToEmbed \o <<"from", "this", "model">>,
      <<"Project", "does", "not", "have", "access", "to", "organization">>,
      <<"Incorrect", "api_key", "provided">>,
      <<"Connection", "error">> }

DocumentLists == { <<>>, <<"X">>, <<"X", "Y", "Z">> }
Retrievals == { <<>>, <<"Y", "X">>, <<"X", "Y">> }

\* Python values that may be None
None == [py |-> "None"]
Str(s) == [py |-> "str", v |-> s]
List(q) == [py |-> "list", v |-> q]

\* the variables of the units that are not running
IdleRag == max_retries = 0 /\ documents_in = <<>> /\ attempt = 0
IdleFetch == github_token = FALSE /\ tree = "none" /\ stack = <<>> /\ documents = <<>>
IdleSession ==
    /\ rag_pipeline = None /\ repo_processed = FALSE /\ current_repo = None
    /\ code_documents = None /\ widgets = None /\ services = None /\ before = None

NoResult == [k |-> "none", kind |-> "none", msg |-> <<>>, docs |-> <<>>]

\* log entries: a call of a hosted service (with the error it raised, <<>> when it
\* succeeded) and a time.sleep(d)
Called(what, err) == [e |-> what, d |-> 0, err |-> err]
Slept(d) == [e |-> "sleep", d |-> d, err |-> <<>>]

(***************************************************************************)
(* setup_rag_pipeline(documents, max_retries)                              *)
(***************************************************************************)
StillActivatingMsg ==
    <<"The", "OpenAI", "API", "access", "is", "still", "being", "activated", ".",
      "Please", "try", "again", "in", "a", "few", "minutes", ".">>

\* rag_pipeline.py:22
SetupPending(error_msg) ==
    IsSubstr(NoAccessToModel, error_msg) \/ IsSubstr(NotAllowedToEmbed, error_msg)

\* rag_pipeline.py:23 and :121
RetryAllowedMutOffByOne(a, m) == a < m
RetryAllowed(a, m) == a < m - 1

\* rag_pipeline.py:26 and :124
BackoffMutLinear(a) == a + 1
Backoff(a) == Pow2(a)

\* rag_pipeline.py:29
EmbeddingErrorMsg(error_msg) == <<"Error", "initializing", "embeddings", ":">> \o error_msg

VectorStoreErrorMsgMutPending(error_msg) ==
    IF SetupPending(error_msg)
    THEN StillActivatingMsg
    ELSE <<"Error", "setting", "up", "embeddings", ":">> \o error_msg

\* rag_pipeline.py:37
VectorStoreErrorMsg(error_msg) == <<"Error", "setting", "up", "embeddings", ":">> \o error_msg

\* embed_query("test") succeeded: break out of the loop
EmbedProbeOk ==
    /\ unit = "setup" /\ pc = "probe"
    /\ log' = Append(log, Called("embed", <<>>))
    /\ pc' = "store"
    /\ UNCHANGED <<unit, max_retries, documents_in, attempt, result, fetchVars, sessVars>>

\* the handler's choice after a failed probe
SetupOnFailureMutRetryAll(error_msg) ==
    IF RetryAllowed(attempt, max_retries) THEN "retry"
    ELSE IF SetupPending(error_msg) THEN "pending" ELSE "error"
SetupOnFailure(error_msg) ==
    IF SetupPending(error_msg)
    THEN IF RetryAllowed(attempt, max_retries) THEN "retry" ELSE "pending"
    ELSE "error"

\* embed_query("test") raised error_msg
EmbedProbeFail(error_msg) ==
    /\ unit = "setup" /\ pc = "probe"
    /\ LET after == Append(log, Called("embed", error_msg))
           todo == SetupOnFailure(error_msg)
       IN  CASE todo = "retry" ->
                   /\ log' = Append(after, Slept(Backoff(attempt)))
                   /\ attempt' = attempt + 1
                   /\ UNCHANGED <<pc, result>>
             [] todo = "pending" ->
                   /\ log' = after
                   /\ pc' = "done"
                   /\ result' = [k |-> "raise", kind |-> "EmbeddingAccessPending",
                                 msg |-> StillActivatingMsg, docs |-> <<>>]
                   /\ UNCHANGED attempt
             [] OTHER ->
                   /\ log' = after
                   /\ pc' = "done"
                   /\ result' = [k |-> "raise", kind |-> "EmbeddingError",
                                 msg |-> EmbeddingErrorMsg(error_msg), docs |-> <<>>]
                   /\ UNCHANGED attempt
    /\ UNCHANGED <<unit, max_retries, documents_in, fetchVars, sessVars>>

\* FAISS.from_documents, then the retriever and the chain: the pipeline is returned
BuildVectorStoreOk ==
    /\ unit = "setup" /\ pc = "store"
    /\ log' = Append(log, Called("store", <<>>))
    /\ pc' = "done"
    /\ result' = [k |-> "return", kind |-> "qa_chain", msg |-> <<>>, docs |-> documents_in]
    /\ UNCHANGED <<unit, max_retries, documents_in, attempt, fetchVars, sessVars>>

\* FAISS.from_documents raised error_msg
BuildVectorStoreFail(error_msg) ==
    /\ unit = "setup" /\ pc = "store"
    /\ log' = Append(log, Called("store", error_msg))
    /\ pc' = "done"
    /\ result' = [k |-> "raise", kind |-> "VectorStoreError",
                  msg |-> VectorStoreErrorMsg(error_msg), docs |-> <<>>]
    /\ UNCHANGED <<unit, max_retries, documents_in, attempt, fetchVars, sessVars>>

InitSetup ==
    /\ unit = "setup"
    /\ max_retries \in 1..MaxRetries
    /\ documents_in \in DocumentLists
    /\ pc = "probe"
    /\ attempt = 0
    /\ log = <<>>
    /\ result = NoResult
    /\ IdleFetch /\ IdleSession

NextSetup ==
    \/ EmbedProbeOk
    \/ \E m \in ServiceErrors : EmbedProbeFail(m)
    \/ BuildVectorStoreOk
    \/ \E m \in ServiceErrors : BuildVectorStoreFail(m)

(***************************************************************************)
(* query_codebase(qa_chain, query, max_retries)                            *)
(***************************************************************************)
\* rag_pipeline.py:120
QueryPending(error_msg) == IsSubstr(NoAccessToModel, error_msg)

\* rag_pipeline.py:132
QueryErrorAnswerMutNoText(error_msg) == <<"Error", "processing", "query">>
QueryErrorAnswer(error_msg) == <<"Error", "processing", "query", ":">> \o error_msg

QueryAnswerMutReversed(results) ==
    LET n == Len(results.source_documents)
    IN  [k |-> "return", kind |-> "answer", msg |-> results.result,
         docs |-> [i \in 1..n |-> results.source_documents[n + 1 - i]]]

\* rag_pipeline.py:112-115: the dict built from the chain's results
QueryAnswer(results) ==
    [k |-> "return", kind |-> "answer", msg |-> results.result,
     docs |-> results.source_documents]

\* qa_chain.invoke succeeded: the answer and the retriever's documents are returned
InvokeOk ==
    /\ unit = "query" /\ pc = "invoke"
    /\ log' = Append(log, Called("invoke", <<>>))
    /\ pc' = "done"
    /\ result' = QueryAnswer([result |-> <<"generated", "answer">>,
                              source_documents |-> documents_in])
    /\ UNCHANGED <<unit, max_retries, documents_in, attempt, fetchVars, sessVars>>

\* the handler's choice after a failed answering call
QueryOnFailure(error_msg) ==
    IF QueryPending(error_msg)
    THEN IF RetryAllowed(attempt, max_retries) THEN "retry" ELSE "pending"
    ELSE "error"

\* rag_pipeline.py:126-129
PendingAnswerMutRaise == [k |-> "raise", kind |-> "AnsweringAccessPending",
                          msg |-> StillActivatingMsg, docs |-> <<>>]
PendingAnswer == [k |-> "return", kind |-> "AnsweringAccessPending",
                  msg |-> StillActivatingMsg, docs |-> <<>>]

\* qa_chain.invoke raised error_msg
InvokeFail(error_msg) ==
    /\ unit = "query" /\ pc = "invoke"
    /\ LET after == Append(log, Called("invoke", error_msg))
           todo == QueryOnFailure(error_msg)
       IN  CASE todo = "retry" ->
                   /\ log' = Append(after, Slept(Backoff(attempt)))
                   /\ attempt' = attempt + 1
                   /\ UNCHANGED <<pc, result>>
             [] todo = "pending" ->
                   /\ log' = after
                   /\ pc' = "done"
                   /\ result' = PendingAnswer
                   /\ UNCHANGED attempt
             [] OTHER ->
                   /\ log' = after
                   /\ pc' = "done"
                   /\ result' = [k |-> "return", kind |-> "AnsweringError",
                                 msg |-> QueryErrorAnswer(error_msg), docs |-> <<>>]
                   /\ UNCHANGED attempt
    /\ UNCHANGED <<unit, max_retries, documents_in, fetchVars, sessVars>>

InitQuery ==
    /\ unit = "query"
    /\ max_retries \in 1..MaxRetries
    /\ documents_in \in Retrievals
    /\ pc = "invoke"
    /\ attempt = 0
    /\ log = <<>>
    /\ result = NoResult
    /\ IdleFetch /\ IdleSession

NextQuery ==
    \/ InvokeOk
    \/ \E m \in ServiceErrors : InvokeFail(m)

InitRag == InitSetup \/ InitQuery
NextRag == NextSetup \/ NextQuery
SpecRag == InitRag /\ [][NextRag]_vars

(***************************************************************************)
(* Properties of the two retry loops                                       *)
(***************************************************************************)
\* the positions of the calls of one kind in the log
CallsOf(what) == {i \in 1..Len(log) : log[i].e = what}
SleepsIn == {i \in 1..Len(log) : log[i].e = "sleep"}
Failed(i) == log[i].err # <<>>

\* the failure signatures as the specification words them
PendingSignature(error_msg) ==
    \/ IsSubstr(<<"does", "not", "have", "access", "to", "model">>, error_msg)
    \/ unit = "setup" /\ IsSubstr(<<"not", "allowed", "to", "generate", "embeddings">>, error_msg)

\* C2: setup_rag_pipeline never makes more than max_retries probe attempts; when
\* every attempt failed with the pending signature and the function is done,
\* exactly max_retries attempts were made and EmbeddingAccessPending was raised;
\* when max_retries - 1 attempts failed that way and the next one succeeded, no
\* retry error is raised, the build goes on to the vector store and, the store
\* raising nothing, returns a pipeline over the documents.
C2_SetupRetryBound ==
    unit = "setup" =>
        /\ Cardinality(CallsOf("embed")) <= max_retries
        /\ (pc = "done"
              /\ \A i \in CallsOf("embed") : Failed(i) /\ PendingSignature(log[i].err))
            => /\ Cardinality(CallsOf("embed")) = max_retries
               /\ result.k = "raise"
               /\ result.kind = "EmbeddingAccessPending"
        /\ (/\ Cardinality(CallsOf("embed")) = max_retries
            /\ \E j \in CallsOf("embed") :
                  /\ ~Failed(j)
                  /\ \A i \in CallsOf("embed") \ {j} :
                        i < j /\ Failed(i) /\ PendingSignature(log[i].err))
            => /\ pc \in {"store", "done"}
               /\ result.kind \notin {"EmbeddingAccessPending", "EmbeddingError"}
               /\ (pc = "done" /\ ~Failed(Len(log)))
                    => result.k = "return" /\ result.docs = documents_in

C2_Witness ==
    /\ unit = "setup" /\ pc = "done" /\ max_retries = DefaultMaxRetries
    /\ Cardinality(CallsOf("embed")) = max_retries
    /\ Cardinality({i \in CallsOf("embed") : Failed(i)}) = max_retries - 1
    /\ result.k = "return"
    /\ documents_in # <<>>

\* C3: a probe failure without the pending signature is the last thing
\* setup_rag_pipeline does: no attempt, no sleep and no vector-store build follows
\* it, EmbeddingError is raised and nothing is returned, on whichever attempt.
C3_HardEmbeddingFailureIsImmediate ==
    unit = "setup" =>
        \A i \in CallsOf("embed") :
            (Failed(i) /\ ~PendingSignature(log[i].err))
            => /\ i = Len(log)
               /\ pc = "done"
               /\ result.k = "raise"
               /\ result.kind = "EmbeddingError"
               /\ result.docs = <<>>

C3_Witness ==
    /\ unit = "setup" /\ pc = "done"
    /\ result.kind = "EmbeddingError"
    /\ Cardinality(CallsOf("embed")) = 2
    /\ Cardinality(CallsOf("embed")) < max_retries

\* C4: query_codebase makes at most max_retries answering calls, a failed call is
\* followed by another call only when it failed with the pending signature, and
\* when all max_retries calls failed that way the function returns (does not
\* raise) the fixed access-pending message with an empty source_documents list.
C4_QueryRetryOnlyOnPending ==
    unit = "query" =>
        /\ Cardinality(CallsOf("invoke")) <= max_retries
        /\ \A i \in CallsOf("invoke") :
              (\E j \in CallsOf("invoke") : j > i)
              => Failed(i) /\ PendingSignature(log[i].err)
        /\ (/\ Cardinality(CallsOf("invoke")) = max_retries
            /\ \A i \in CallsOf("invoke") : Failed(i) /\ PendingSignature(log[i].err))
            => /\ pc = "done"
               /\ result.k = "return"
               /\ result.msg = <<"The", "OpenAI", "API", "access", "is", "still", "being",
                                 "activated", ".", "Please", "try", "again", "in", "a",
                                 "few", "minutes", ".">>
               /\ result.docs = <<>>

C4_Witness ==
    /\ unit = "query" /\ pc = "done" /\ max_retries = DefaultMaxRetries
    /\ Cardinality(CallsOf("invoke")) = max_retries
    /\ \A i \in CallsOf("invoke") : Failed(i) /\ PendingSignature(log[i].err)
    /\ documents_in # <<>>

\* C5: an answering call that fails without the pending signature, on whichever
\* attempt, is the last thing query_codebase does, and the function returns (does
\* not raise) an empty evidence list and an answer that contains the error text.
C5_HardQueryFailureReturnsInBand ==
    unit = "query" =>
        \A i \in CallsOf("invoke") :
            (Failed(i) /\ ~PendingSignature(log[i].err))
            => /\ i = Len(log)
               /\ pc = "done"
               /\ result.k = "return"
               /\ result.docs = <<>>
               /\ IsSubstr(log[i].err, result.msg)

C5_Witness ==
    /\ unit = "query" /\ pc = "done"
    /\ Cardinality(CallsOf("invoke")) = 2
    /\ result.kind = "AnsweringError"
    /\ documents_in # <<>>

\* C6: in both retry loops the n-th sleep lasts 2^(n-1) time units (1, 2, 4, ...),
\* every sleep directly follows a failed call and is directly followed by the
\* next call, every call but the first directly follows a sleep, and a finished
\* function never ends on a sleep (no delay after the final failed attempt).
C6_BackoffDoubles ==
    LET loop == IF unit = "setup" THEN "embed" ELSE "invoke"
    IN  unit \in {"setup", "query"} =>
        /\ \A i \in SleepsIn :
              /\ log[i].d = 2 ^ (Cardinality({j \in SleepsIn : j <= i}) - 1)
              /\ i > 1 /\ log[i - 1].e = loop /\ Failed(i - 1)
              /\ i < Len(log) => log[i + 1].e = loop
        /\ \A i \in CallsOf(loop) :
              i > 1 => log[i - 1].e = "sleep"
        /\ Cardinality(SleepsIn) <= max_retries - 1
        /\ pc = "done" => log[Len(log)].e # "sleep"

C6_Witness ==
    /\ unit \in {"setup", "query"} /\ pc = "done"
    /\ Cardinality(SleepsIn) = 3
    /\ Failed(Len(log))
    /\ \E i \in SleepsIn : log[i].d = 4

\* C14: when the answering call succeeds, on the first or on a later attempt,
\* query_codebase returns as source_documents the sequence the retriever
\* returned: the same elements in the same order.
C14_EvidenceIsRetrievedSequence ==
    (/\ unit = "query" /\ pc = "done"
     /\ ~Failed(Len(log)))
    => /\ result.k = "return"
       /\ result.kind = "answer"
       /\ result.docs = documents_in

\* the nearest neighbours [Y, X] came back as the evidence [Y, X], after a retry
C14_Witness ==
    /\ unit = "query" /\ pc = "done"
    /\ documents_in = <<"Y", "X">>
    /\ Cardinality(CallsOf("invoke")) = 2
    /\ ~Failed(Len(log))
    /\ result.docs = <<"Y", "X">>

\* C20: setup_rag_pipeline calls FAISS.from_documents at most once, directly
\* after a probe that succeeded; when that call fails, with the pending
\* signature or any other error, nothing follows it (no sleep, no probe, no
\* second build) and the function raises the generic "Error setting up
\* embeddings: <error>" and not the access-pending error.
C20_StoreFailureIsNotRetried ==
    unit = "setup" =>
        /\ Cardinality(CallsOf("store")) <= 1
        /\ \A i \in CallsOf("store") :
              /\ i = Len(log) /\ pc = "done"
              /\ i > 1 /\ log[i - 1].e = "embed" /\ ~Failed(i - 1)
              /\ Failed(i) =>
                    /\ result.k = "raise"
                    /\ result.kind = "VectorStoreError"
                    /\ result.msg =
                          <<"Error", "setting", "up", "embeddings", ":">> \o log[i].err
                    /\ result.msg # StillActivatingMsg

\* the build failed with the pending signature while retries were still left
C20_Witness ==
    /\ unit = "setup" /\ pc = "done"
    /\ \E i \in CallsOf("store") : Failed(i) /\ PendingSignature(log[i].err)
    /\ Cardinality(CallsOf("embed")) = 2
    /\ attempt < max_retries - 1
    /\ result.kind = "VectorStoreError"

(***************************************************************************)
(* The hosting API: the repositories it serves and the answers it gives    *)
(***************************************************************************)
Owner == "octo"
RepoName == "demo"

Item(type, name, path) == [type |-> type, name |-> name, path |-> path]

\* the JSON a successful listing of `path` returns: a list of descriptors, or a
\* single descriptor
Listing(t, path) ==
    CASE t = "T1" /\ path = "" ->
           [is_list |-> TRUE, body |->
              << Item("file", <<"a", ".", "p", "y">>, "a.py"),
                 Item("file", <<"b", ".", "t", "x", "t">>, "b.txt"),
                 Item("dir", <<"s", "r", "c">>, "src"),
                 Item("file", <<"c", ".", "g", "o">>, "c.go") >>]
      [] t = "T1" /\ path = "src" ->
           [is_list |-> TRUE, body |->
              << Item("file", <<"D", ".", "P", "Y">>, "src/D.PY"),
                 Item("symlink", <<"l", ".", "p", "y">>, "src/l.py"),
                 Item("dir", <<"d", "e", "e", "p">>, "src/deep") >>]
      [] t = "T1" /\ path = "src/deep" ->
           [is_list |-> TRUE, body |->
              << Item("file", <<"f", ".", "j", "s">>, "src/deep/f.js"),
                 Item("file", <<"n", ".", "m", "d">>, "src/deep/n.md") >>]
      [] t = "T2" /\ path = "" ->
           [is_list |-> FALSE, body |-> Item("file", <<"m", ".", "p", "y">>, "m.py")]

Trees == {"T1", "T2"}
DirsOf(t) == IF t = "T1" THEN {"", "src", "src/deep"} ELSE {""}

\* every descriptor of the repository, at any depth
ItemsOf(t) ==
    UNION { LET r == Listing(t, p)
            IN  IF r.is_list THEN {r.body[i] : i \in 1..Len(r.body)} ELSE {r.body}
            : p \in DirsOf(t) }

\* the failing answers to a listing request: status code and response.text
FailureStatuses == {403, 404, 429, 500}
FailureTexts ==
    { <<"API", "rate", "limit", "exceeded", "for", "user">>,
      <<"API", "Rate", "Limit", "Exceeded">>,
      <<"You", "have", "exceeded", "a", "secondary", "rate", "limit">>,
      <<"Not", "Found">>,
      <<"resource", "not", "found">>,
      <<"requires", "authentication">>,
      <<"Server", "Error">> }

\* a file's text is a sequence of spans: n characters of the kind s, which is
\* code, a blank or a newline
Span(s, n) == [s |-> s, n |-> n]
NewLine == Span("\n", 1)
Whitespace == {" ", "\n"}

\* the texts a file download returns: empty, short, short with a trailing
\* newline, blank only, and one longer than a fragment
FileTexts ==
    { <<>>,
      <<Span("def f(): pass", 13)>>,
      <<Span("def f(): pass", 13), NewLine>>,
      <<Span(" ", 4)>>,
      <<Span("class A", 2500), NewLine, Span("def g", 400), NewLine,
        Span("def h", 2400)>> }

(***************************************************************************)
(* code_processor.py                                                       *)
(***************************************************************************)
CodeExtensions ==
    { <<".", "p", "y">>, <<".", "j", "s">>, <<".", "j", "a", "v", "a">>,
      <<".", "c", "p", "p">>, <<".", "h">>, <<".", "c", "s">>, <<".", "r", "b">>,
      <<".", "g", "o">>, <<".", "t", "s">>, <<".", "t", "s", "x">>,
      <<".", "j", "s", "x">> }

is_code_file_no_lower(filename) == \E ext \in CodeExtensions : EndsWith(filename, ext)
is_code_file(filename) == \E ext \in CodeExtensions : EndsWith(Lower(filename), ext)

RateLimitMsg ==
    <<"GitHub", "API", "rate", "limit", "exceeded", ".", "Please", "provide", "a",
      "GitHub", "token", "to", "increase", "the", "limit", ".">>
AuthRequiredMsg ==
    <<"GitHub", "API", "requires", "authentication", ".", "Please", "provide", "a",
      "GitHub", "token", ".">>
AccessDeniedMsg ==
    <<"Access", "denied", "to", "GitHub", "repository", ".", "Please", "check", "if",
      "the", "repository", "is", "private", "and", "if", "your", "token", "has",
      "correct", "permissions", ".">>
NotFoundMsg(owner, repo, path) ==
    <<"Repository", "or", "path", "not", "found", ":", owner, "/", repo, "/", path>>
UpstreamMsg(status, text) ==
    <<"Failed", "to", "fetch", "repo", "contents", ":", "HTTP", ToString(status), "-">>
    \o text

Raised(kind, msg) == [ok |-> FALSE, kind |-> kind, msg |-> msg]

\* what get_repo_contents does with the response (status, text)
get_repo_contents_no_lower(owner, repo, path, status, text, token) ==
    IF status = 403
    THEN IF IsSubstr(<<"rate", "limit", "exceeded">>, text)
         THEN Raised("RateLimitExceeded", RateLimitMsg)
         ELSE IF ~token
              THEN Raised("AuthenticationRequired", AuthRequiredMsg)
              ELSE Raised("AccessDenied", AccessDeniedMsg)
    ELSE IF status = 404
    THEN Raised("NotFound", NotFoundMsg(owner, repo, path))
    ELSE IF status # 200
    THEN Raised("UpstreamError", UpstreamMsg(status, text))
    ELSE [ok |-> TRUE, kind |-> "ok", msg |-> <<>>]
get_repo_contents(owner, repo, path, status, text, token) ==
    IF status = 403
    THEN IF IsSubstr(<<"rate", "limit", "exceeded">>, Lower(text))
         THEN Raised("RateLimitExceeded", RateLimitMsg)
         ELSE IF ~token
              THEN Raised("AuthenticationRequired", AuthRequiredMsg)
              ELSE Raised("AccessDenied", AccessDeniedMsg)
    ELSE IF status = 404
    THEN Raised("NotFound", NotFoundMsg(owner, repo, path))
    ELSE IF status # 200
    THEN Raised("UpstreamError", UpstreamMsg(status, text))
    ELSE [ok |-> TRUE, kind |-> "ok", msg |-> <<>>]

SurfacedRateLimitMsg ==
    <<"GitHub", "API", "rate", "limit", "exceeded", ".", "Please", "wait", "or",
      "provide", "a", "GitHub", "token", "to", "increase", "the", "limit", ".">>
SurfacedAuthMsg ==
    <<"This", "repository", "requires", "authentication", ".", "Please", "provide",
      "a", "GitHub", "token", ".">>
SurfacedNotFoundMsg ==
    <<"Repository", "not", "found", "or", "is", "private", ".", "Please", "check",
      "the", "URL", "and", "your", "access", "permissions", ".">>
SurfacedOtherPrefix == <<"Error", "accessing", "repository", ":">>

\* the except clause of process_github_repo: the message it re-raises
Surface(error_msg) ==
    IF IsSubstr(<<"rate", "limit", "exceeded">>, Lower(error_msg))
    THEN SurfacedRateLimitMsg
    ELSE IF IsSubstr(<<"requires", "authentication">>, error_msg)
    THEN SurfacedAuthMsg
    ELSE IF IsSubstr(<<"not", "found">>, error_msg)
    THEN SurfacedNotFoundMsg
    ELSE SurfacedOtherPrefix \o error_msg

\* RecursiveCharacterTextSplitter(chunk_size=3000, chunk_overlap=500, ...)
chunk_size == 3000
chunk_overlap == 500

\* length_function=len
RECURSIVE TextLen(_)
TextLen(text) == IF text = <<>> THEN 0 ELSE Head(text).n + TextLen(Tail(text))

\* str.strip(): the splitter is built without strip_whitespace=False
RECURSIVE StripLeft(_)
StripLeft(text) ==
    IF text # <<>> /\ Head(text).s \in Whitespace THEN StripLeft(Tail(text)) ELSE text

RECURSIVE StripRight(_)
StripRight(text) ==
    IF text # <<>> /\ text[Len(text)].s \in Whitespace
    THEN StripRight(SubSeq(text, 1, Len(text) - 1))
    ELSE text

Strip(text) == StripRight(StripLeft(text))

\* the pieces of a text cut before each newline, the separator kept at the head
\* of the piece that follows it
RECURSIVE Pieces(_, _)
Pieces(text, piece) ==
    IF text = <<>>
    THEN IF piece = <<>> THEN <<>> ELSE <<piece>>
    ELSE IF Head(text) = NewLine /\ piece # <<>>
    THEN <<piece>> \o Pieces(Tail(text), <<NewLine>>)
    ELSE Pieces(Tail(text), Append(piece, Head(text)))

RECURSIVE Joined(_)
Joined(pieces) == IF pieces = <<>> THEN <<>> ELSE Head(pieces) \o Joined(Tail(pieces))

\* the stripped text of the pieces collected for one fragment, none when empty
JoinDocsNoStrip(pieces) == IF Joined(pieces) = <<>> THEN <<>> ELSE <<Joined(pieces)>>
JoinDocs(pieces) ==
    IF Strip(Joined(pieces)) = <<>> THEN <<>> ELSE <<Strip(Joined(pieces))>>

\* the pieces of a finished fragment that are carried into the next one
RECURSIVE Carried(_, _)
Carried(current, nextLen) ==
    IF \/ TextLen(Joined(current)) > chunk_overlap
       \/ (TextLen(Joined(current)) + nextLen > chunk_size
           /\ TextLen(Joined(current)) > 0)
    THEN Carried(Tail(current), nextLen)
    ELSE current

\* the pieces are merged into fragments of at most chunk_size characters
RECURSIVE MergeSplits(_, _)
MergeSplits(splits, current) ==
    IF splits = <<>>
    THEN JoinDocs(current)
    ELSE LET d == Head(splits)
         IN  IF TextLen(Joined(current)) + TextLen(d) > chunk_size /\ current # <<>>
             THEN JoinDocs(current)
                  \o MergeSplits(Tail(splits), Append(Carried(current, TextLen(d)), d))
             ELSE MergeSplits(Tail(splits), Append(current, d))

\* text_splitter.split_text(content): the fragments of a file's text
SplitText(content) == MergeSplits(Pieces(content, <<>>), <<>>)

\* Python: os.path.splitext(name)[1]
SplitExt(name) ==
    LET dots == {i \in 1..Len(name) : name[i] = "."}
    IN  IF dots = {} THEN <<>>
        ELSE LET last == CHOOSE i \in dots : \A j \in dots : j <= i
             IN  IF \E k \in 1..(last - 1) : name[k] # "."
                 THEN SubSeq(name, last, Len(name))
                 ELSE <<>>

FileDocumentsMutGlobalOrdinal(item, chunks) ==
    [idx \in 1..Len(chunks) |->
        [page_content |-> chunks[idx],
         file_name |-> item.name,
         file_path |-> item.path,
         file_type |-> SplitExt(item.name),
         chunk_id |-> Len(documents) + idx - 1,
         repo |-> <<Owner, "/", RepoName>>]]

\* the Documents built from one file's chunks
FileDocuments(item, chunks) ==
    [idx \in 1..Len(chunks) |->
        [page_content |-> chunks[idx],
         file_name |-> item.name,
         file_path |-> item.path,
         file_type |-> SplitExt(item.name),
         chunk_id |-> idx - 1,
         repo |-> <<Owner, "/", RepoName>>]]

\* the loop of process_contents goes on with the next item after a failed file
AfterFailedFileMutBreak(i, n) == n + 1
AfterFailedFile(i, n) == i + 1

Frame(path) == [path |-> path, listed |-> FALSE, items |-> <<>>, i |-> 1]
Top == stack[Len(stack)]
SetTop(f) == [stack EXCEPT ![Len(stack)] = f]
HasNext == Top.listed /\ Top.i <= Len(Top.items)
NextItem == Top.items[Top.i]
Running == unit = "fetch" /\ pc = "run" /\ stack # <<>>

ListRequest(path, status, text, r) ==
    [e |-> "list", path |-> path, status |-> status, text |-> text,
     kind |-> r.kind, msg |-> r.msg]
DownloadRequest(path, how, content) ==
    [e |-> "download", path |-> path, how |-> how, content |-> content]

\* get_repo_contents returned the listing of the directory
ListDirOk ==
    /\ Running /\ ~Top.listed
    /\ LET r == get_repo_contents(Owner, RepoName, Top.path, 200, <<>>, github_token)
           json == Listing(tree, Top.path)
           contents == IF json.is_list THEN json.body ELSE <<json.body>>
       IN  /\ r.ok
           /\ log' = Append(log, ListRequest(Top.path, 200, <<>>, r))
           /\ stack' = SetTop([Top EXCEPT !.listed = TRUE, !.items = contents])
    /\ UNCHANGED <<unit, ragVars, pc, result, github_token, tree, documents, sessVars>>

AfterFailedListingMutRetry == "run"

\* code_processor.py:66-67: get_repo_contents is called once per directory, with
\* no loop around it; its exception ends the traversal
AfterFailedListing == "done"

ListingFailedMutPartial(error_msg) ==
    [k |-> "return", kind |-> "documents", msg |-> <<>>, docs |-> documents]

\* code_processor.py:103-113: the exception of a listing, at any depth, leaves
\* process_contents and is re-raised; `return documents` is not reached
ListingFailed(error_msg) ==
    [k |-> "raise", kind |-> "Exception", msg |-> Surface(error_msg), docs |-> <<>>]

\* get_repo_contents raised: process_github_repo re-raises and returns nothing
ListDirFail(status, text) ==
    /\ Running /\ ~Top.listed
    /\ LET r == get_repo_contents(Owner, RepoName, Top.path, status, text, github_token)
       IN  /\ ~r.ok
           /\ log' = Append(log, ListRequest(Top.path, status, text, r))
           /\ pc' = AfterFailedListing
           /\ result' = ListingFailed(r.msg)
    /\ UNCHANGED <<unit, ragVars, fetchVars, sessVars>>

\* item['type'] == 'dir': the recursive call
VisitDir ==
    /\ Running /\ HasNext /\ NextItem.type = "dir"
    /\ stack' = Append(SetTop([Top EXCEPT !.i = @ + 1]), Frame(NextItem.path))
    /\ UNCHANGED <<unit, ragVars, callVars, github_token, tree, documents, sessVars>>

\* neither a directory nor a recognized file: nothing is done with the item
SkipItem ==
    /\ Running /\ HasNext /\ NextItem.type # "dir"
    /\ ~(NextItem.type = "file" /\ is_code_file(NextItem.name))
    /\ stack' = SetTop([Top EXCEPT !.i = @ + 1])
    /\ UNCHANGED <<unit, ragVars, callVars, github_token, tree, documents, sessVars>>

\* the download answered 200: the file is chunked and its documents appended
DownloadOk(content) ==
    /\ Running /\ HasNext
    /\ NextItem.type = "file" /\ is_code_file(NextItem.name)
    /\ log' = Append(log, DownloadRequest(NextItem.path, "ok", content))
    /\ documents' = documents \o FileDocuments(NextItem, SplitText(content))
    /\ stack' = SetTop([Top EXCEPT !.i = @ + 1])
    /\ UNCHANGED <<unit, ragVars, pc, result, github_token, tree, sessVars>>

\* the download answered another status, or downloading or chunking raised
DownloadFail(how) ==
    /\ Running /\ HasNext
    /\ NextItem.type = "file" /\ is_code_file(NextItem.name)
    /\ log' = Append(log, DownloadRequest(NextItem.path, how, <<>>))
    /\ stack' = SetTop([Top EXCEPT !.i = AfterFailedFile(@, Len(Top.items))])
    /\ UNCHANGED <<unit, ragVars, pc, result, github_token, tree, documents, sessVars>>

\* the loop of one process_contents call is over: back to the caller
ReturnFromDir ==
    /\ Running /\ Top.listed /\ Top.i > Len(Top.items)
    /\ stack' = SubSeq(stack, 1, Len(stack) - 1)
    /\ IF Len(stack) = 1
       THEN /\ pc' = "done"
            /\ result' = [k |-> "return", kind |-> "documents", msg |-> <<>>,
                          docs |-> documents]
       ELSE UNCHANGED <<pc, result>>
    /\ UNCHANGED <<unit, ragVars, log, github_token, tree, documents, sessVars>>

InitFetch ==
    /\ unit = "fetch"
    /\ github_token \in BOOLEAN
    /\ tree \in Trees
    /\ stack = <<Frame("")>>
    /\ documents = <<>>
    /\ pc = "run" /\ log = <<>> /\ result = NoResult
    /\ IdleRag /\ IdleSession

NextFetch ==
    \/ ListDirOk
    \/ \E st \in FailureStatuses, text \in FailureTexts : ListDirFail(st, text)
    \/ VisitDir
    \/ SkipItem
    \/ \E content \in FileTexts : DownloadOk(content)
    \/ \E how \in {"status", "exception"} : DownloadFail(how)
    \/ ReturnFromDir

SpecFetch == InitFetch /\ [][NextFetch]_vars

(***************************************************************************)
(* Properties of the repository fetcher                                    *)
(***************************************************************************)
ListingsIn == {i \in 1..Len(log) : log[i].e = "list"}
FailedListings == {i \in ListingsIn : log[i].status # 200}
DownloadsIn == {i \in 1..Len(log) : log[i].e = "download"}
DownloadsOf(path) == {i \in DownloadsIn : log[i].path = path}
DownloadedOk(path) == \E i \in DownloadsOf(path) : log[i].how = "ok"
\* the documents of a list that come from the file at `path`
DocsFrom(docs, path) == SelectSeq(docs, LAMBDA d : d.file_path = path)
Contents(docs) == [i \in 1..Len(docs) |-> docs[i].page_content]
FilesOf(t) == {it \in ItemsOf(t) : it.type = "file"}

\* the classification of a failing listing response as the specification states
\* it, `phrase` being the rate-limit indication looked for in the response text
StatedKind(status, text, token, phrase) ==
    CASE status = 403 /\ IsSubstr(phrase, Lower(text)) -> "RateLimitExceeded"
      [] status = 403 /\ ~IsSubstr(phrase, Lower(text)) /\ ~token -> "AuthenticationRequired"
      [] status = 403 /\ ~IsSubstr(phrase, Lower(text)) /\ token -> "AccessDenied"
      [] status = 404 -> "NotFound"
      [] OTHER -> "UpstreamError"

\* C7 as stated: every failing listing response gets the kind of the stated
\* classification, the rate-limit indication being the words "rate limit" in the
\* response text.
C7_ClassifiedByRateLimitWords ==
    unit = "fetch" =>
        \A i \in FailedListings :
            log[i].kind = StatedKind(log[i].status, log[i].text, github_token,
                                     <<"rate", "limit">>)

\* C7 as amended: the same classification, the rate-limit indication being the
\* words "rate limit exceeded" in the lower-cased response text; every failing
\* response gets exactly one of the five kinds.
C7_ClassifiedByRateLimitExceeded ==
    unit = "fetch" =>
        \A i \in FailedListings :
            /\ log[i].kind = StatedKind(log[i].status, log[i].text, github_token,
                                        <<"rate", "limit", "exceeded">>)
            /\ log[i].kind \in {"RateLimitExceeded", "AuthenticationRequired",
                                "AccessDenied", "NotFound", "UpstreamError"}
            /\ pc = "done" /\ result.k = "raise"

C7_Witness ==
    /\ unit = "fetch" /\ pc = "done" /\ github_token
    /\ \E i \in FailedListings :
          /\ log[i].status = 403
          /\ log[i].path = "src"
          /\ IsSubstr(<<"rate", "limit">>, log[i].text)
          /\ log[i].kind = "AccessDenied"

\* the kind a message surfaced by process_github_repo reports: its own three
\* messages, or the wrapped message of get_repo_contents
SurfacedKind(msg) ==
    CASE StartsWith(msg, <<"GitHub", "API", "rate", "limit", "exceeded">>) ->
             "RateLimitExceeded"
      [] StartsWith(msg, <<"This", "repository", "requires", "authentication">>) ->
             "AuthenticationRequired"
      [] StartsWith(msg, <<"Repository", "not", "found">>) -> "NotFound"
      [] StartsWith(msg, <<"Error", "accessing", "repository", ":", "Access", "denied">>) ->
             "AccessDenied"
      [] StartsWith(msg, <<"Error", "accessing", "repository", ":", "Failed", "to", "fetch">>) ->
             "UpstreamError"
      [] OTHER -> "unknown"

\* C8: the error process_github_repo raises reports the kind get_repo_contents
\* assigned to the failing listing response.
C8_SurfacedKindIsAssignedKind ==
    (unit = "fetch" /\ pc = "done" /\ result.k = "raise") =>
        \A i \in FailedListings : SurfacedKind(result.msg) = log[i].kind

\* the recognized extensions as the specification lists them
StatedExtensions ==
    { <<".", "p", "y">>, <<".", "j", "s">>, <<".", "j", "a", "v", "a">>,
      <<".", "c", "p", "p">>, <<".", "h">>, <<".", "c", "s">>, <<".", "r", "b">>,
      <<".", "g", "o">>, <<".", "t", "s">>, <<".", "t", "s", "x">>,
      <<".", "j", "s", "x">> }
EndsInStatedExtension(name) == \E ext \in StatedExtensions : EndsWith(name, ext)

\* the result holds the chunks of exactly the files `Selected` picks
ChunksOfExactly(Selected(_)) ==
    /\ \A i \in 1..Len(result.docs) :
          \E it \in FilesOf(tree) :
              it.path = result.docs[i].file_path /\ Selected(it)
    /\ \A it \in FilesOf(tree) :
          Selected(it) =>
              \E i \in DownloadsOf(it.path) :
                  /\ log[i].how = "ok"
                  /\ Contents(DocsFrom(result.docs, it.path)) = SplitText(log[i].content)

\* C9 as stated: a successful process_github_repo returns the chunks of exactly
\* the files, at any depth, whose name ends in a recognized extension and whose
\* download succeeded.
C9_ChunksOfRecognizedFiles ==
    (unit = "fetch" /\ pc = "done" /\ result.k = "return") =>
        ChunksOfExactly(LAMBDA it : EndsInStatedExtension(it.name)
                                     /\ DownloadedOk(it.path))

\* C9 as amended: the same, the name being lower-cased before it is compared
\* with the recognized extensions; the files selected for download are exactly
\* those with such a name.
C9_ChunksOfRecognizedFilesAnyCase ==
    (unit = "fetch" /\ pc = "done" /\ result.k = "return") =>
        /\ ChunksOfExactly(LAMBDA it : EndsInStatedExtension(Lower(it.name))
                                        /\ DownloadedOk(it.path))
        /\ \A it \in FilesOf(tree) :
              EndsInStatedExtension(Lower(it.name)) <=> DownloadsOf(it.path) # {}

C9_Witness ==
    /\ unit = "fetch" /\ pc = "done" /\ result.k = "return" /\ tree = "T1"
    /\ DocsFrom(result.docs, "a.py") # <<>>
    /\ DocsFrom(result.docs, "c.go") # <<>>
    /\ DocsFrom(result.docs, "b.txt") = <<>>
    /\ DocsFrom(result.docs, "src/D.PY") # <<>>
    /\ Len(DocsFrom(result.docs, "src/deep/f.js")) = 2

\* C10: a failed download of one file never makes process_github_repo raise (it
\* raises only when a listing failed), the failed file contributes no chunk, and
\* on return every recognized file of the repository was requested once and the
\* chunks of every file that downloaded are in the result.
C10_FailedDownloadIsSkipped ==
    unit = "fetch" =>
        /\ result.k = "raise" => FailedListings # {}
        /\ \A i \in DownloadsIn :
              log[i].how # "ok" => DocsFrom(documents, log[i].path) = <<>>
        /\ (pc = "done" /\ result.k = "return") =>
              \A it \in FilesOf(tree) :
                  EndsInStatedExtension(Lower(it.name)) =>
                      /\ Cardinality(DownloadsOf(it.path)) = 1
                      /\ \A i \in DownloadsOf(it.path) :
                            log[i].how = "ok" =>
                                Contents(DocsFrom(result.docs, it.path))
                                    = SplitText(log[i].content)

C10_Witness ==
    /\ unit = "fetch" /\ pc = "done" /\ result.k = "return" /\ tree = "T1"
    /\ DocsFrom(result.docs, "a.py") # <<>>
    /\ \E i \in DownloadsOf("src/D.PY") : log[i].how = "exception"
    /\ \E i \in DownloadsOf("src/deep/f.js") : log[i].how = "status"
    /\ DocsFrom(result.docs, "c.go") # <<>>

\* a text without its leading and trailing whitespace
Trimmed(text) ==
    LET keep == {i \in 1..Len(text) : text[i].s \notin Whitespace}
    IN  IF keep = {} THEN <<>>
        ELSE SubSeq(text, CHOOSE i \in keep : \A j \in keep : i <= j,
                          CHOOSE i \in keep : \A j \in keep : j <= i)

\* the downloads of texts shorter than the target chunk length
ShortDownloads ==
    {i \in DownloadsIn : log[i].how = "ok" /\ TextLen(log[i].content) < chunk_size}

\* C16 as stated: every file content shorter than the target chunk length,
\* empty, blank-only and whitespace-bordered content included, gives exactly
\* one chunk, equal to the content.
C16_ShortFileIsOneChunk ==
    unit = "fetch" =>
        \A i \in ShortDownloads :
            Contents(DocsFrom(documents, log[i].path)) = <<log[i].content>>

\* C16: every file content shorter than the target chunk length gives the
\* content without its leading and trailing whitespace as the only chunk, and
\* no chunk at all when nothing is left of it (empty or blank-only content).
C16_ShortFileIsOneStrippedChunk ==
    unit = "fetch" =>
        \A i \in ShortDownloads :
            Contents(DocsFrom(documents, log[i].path)) =
                IF Trimmed(log[i].content) = <<>>
                THEN <<>>
                ELSE <<Trimmed(log[i].content)>>

\* a short file ending in a newline gave its text without the newline, a
\* blank-only file and an empty file gave nothing, a plain short file itself
C16_Witness ==
    /\ unit = "fetch" /\ pc = "done" /\ result.k = "return" /\ tree = "T1"
    /\ \E i \in DownloadsOf("a.py") :
          /\ log[i].content = <<Span("def f(): pass", 13), NewLine>>
          /\ Contents(DocsFrom(documents, "a.py")) = <<<<Span("def f(): pass", 13)>>>>
    /\ \E i \in DownloadsOf("src/D.PY") :
          /\ log[i].content = <<Span(" ", 4)>>
          /\ DocsFrom(documents, "src/D.PY") = <<>>
    /\ \E i \in DownloadsOf("src/deep/f.js") :
          /\ log[i].content = <<>>
          /\ DocsFrom(documents, "src/deep/f.js") = <<>>
    /\ \E i \in DownloadsOf("c.go") :
          /\ log[i].content = <<Span("def f(): pass", 13)>>
          /\ Contents(DocsFrom(documents, "c.go")) = <<log[i].content>>

\* the extension of a file name: from its last dot on, none for a name without
\* a dot or with a leading dot only
ExtensionOf(name) ==
    LET dots == {i \in 2..Len(name) : name[i] = "."}
    IN  IF dots = {} THEN <<>>
        ELSE SubSeq(name, CHOOSE i \in dots : \A j \in dots : j <= i, Len(name))

\* C15: the chunks of one file carry the ordinals 0, 1, .., n-1 in fragment
\* order (the same ordinal recurs in other files), and every chunk carries the
\* name, the path and the extension of its file and the owner/repo identifier.
C15_ChunkOrdinalsAndMetadata ==
    unit = "fetch" =>
        /\ \A k \in 1..Len(documents) :
              \E it \in FilesOf(tree) : documents[k].file_path = it.path
        /\ \A it \in FilesOf(tree) :
              LET ds == DocsFrom(documents, it.path)
              IN  /\ \A k \in 1..Len(ds) :
                        /\ ds[k].chunk_id = k - 1
                        /\ ds[k].file_name = it.name
                        /\ ds[k].file_type = ExtensionOf(it.name)
                        /\ ds[k].repo = <<Owner, "/", RepoName>>
                  /\ \A i \in DownloadsOf(it.path) :
                        log[i].how = "ok" => Contents(ds) = SplitText(log[i].content)

\* two files of two chunks each, numbered 0, 1 in both, and one of one chunk
C15_Witness ==
    /\ unit = "fetch" /\ pc = "done" /\ result.k = "return" /\ tree = "T1"
    /\ Len(DocsFrom(result.docs, "a.py")) = 2
    /\ Len(DocsFrom(result.docs, "src/D.PY")) = 2
    /\ DocsFrom(result.docs, "src/D.PY")[2].chunk_id = 1
    /\ DocsFrom(result.docs, "src/D.PY")[2].file_type = <<".", "P", "Y">>
    /\ Len(DocsFrom(result.docs, "c.go")) = 1
    /\ DocsFrom(result.docs, "c.go")[1].chunk_id = 0

ListingsOf(path) == {i \in ListingsIn : log[i].path = path}

\* C18: process_github_repo requests the listing of a directory at most once
\* and only of directories of the tree, the download of a file at most once
\* and only of recognized files; a failed listing is the last request made and
\* ends the call; a call that returns has listed every directory of the tree
\* exactly once; and the call always has a next step until it ends, after at
\* most one request per directory and file.
C18_NoRetrySequentialTraversal ==
    unit = "fetch" =>
        /\ \A i \in ListingsIn :
              log[i].path \in DirsOf(tree) /\ ListingsOf(log[i].path) = {i}
        /\ \A i \in DownloadsIn :
              /\ DownloadsOf(log[i].path) = {i}
              /\ \E it \in FilesOf(tree) : it.path = log[i].path /\ is_code_file(it.name)
        /\ \A i \in FailedListings : i = Len(log) /\ pc = "done"
        /\ (pc = "done" /\ result.k = "return") =>
              \A d \in DirsOf(tree) : Cardinality(ListingsOf(d)) = 1
        /\ Len(log) <= Cardinality(DirsOf(tree)) + Cardinality(FilesOf(tree))
        /\ pc # "done" => ENABLED NextFetch

\* the whole tree was traversed, one download failing, without any repetition
C18_Witness ==
    /\ unit = "fetch" /\ pc = "done" /\ result.k = "return" /\ tree = "T1"
    /\ Cardinality(ListingsIn) = 3
    /\ Cardinality(DownloadsIn) = 4
    /\ \E i \in DownloadsIn : log[i].how # "ok"

(***************************************************************************)
(* main.py: one run of main() per user interaction                         *)
(***************************************************************************)
\* a URL is the sequence of its "/"-separated segments; these end in "github.com"
GithubHosts == {"github.com", "www.github.com"}

Urls ==
    { <<"https:", "", "github.com", "octo", "demo">>,
      <<"https:", "", "www.github.com", "octo", "demo", "tree", "main">>,
      <<"https:", "", "github.com", "octo", "other">>,
      <<"https:", "", "github.com", "octo">>,
      <<"https:", "", "github.com", "octo", "">>,
      <<"https:", "", "gitlab.com", "octo", "demo">> }

extract_repo_info_any_host(github_url) ==
    IF Len(github_url) >= 5 /\ github_url[4] # "" /\ github_url[5] # ""
    THEN <<Str(github_url[4]), Str(github_url[5])>>
    ELSE <<None, None>>

\* re.search(r"github\.com/([^/]+)/([^/]+)", github_url): the leftmost match
extract_repo_info(github_url) ==
    LET hits == {i \in 1..(Len(github_url) - 2) :
                    /\ github_url[i] \in GithubHosts
                    /\ github_url[i + 1] # ""
                    /\ github_url[i + 2] # ""}
    IN  IF hits = {}
        THEN <<None, None>>
        ELSE LET i == CHOOSE h \in hits : \A g \in hits : h <= g
             IN  <<Str(github_url[i + 1]), Str(github_url[i + 2])>>

\* Python truthiness of a str-or-None and of the held pipeline
Truthy(x) == x # None /\ x.v # ""

\* f"{owner}/{repo_name}"
RepoId(owner, repo_name) == Str(<<owner.v, "/", repo_name.v>>)

\* what the services do when called in a run
ServiceAnswers ==
    [fetch : {"documents", "raise"},
     build : {"chain", "pending", "raise"},
     answer : {"answer", "raise"}]

WidgetValues ==
    [github_url : Urls \cup {<<>>},
     new_repo_clicked : BOOLEAN,
     query : {"", "what does f do?"}]

Session(rp, done, cur, docs) ==
    [rag_pipeline |-> rp, repo_processed |-> done, current_repo |-> cur,
     code_documents |-> docs]

\* main.py:116-137: the try block and its except clause
ProcessRepository(s, current, svc) ==
    LET fetched == List(<<[repo |-> current.v, page_content |-> "def f(): pass"]>>)
    IN  IF svc.fetch = "raise"
        THEN [calls |-> <<"fetch">>, shown |-> "error",
              s |-> [s EXCEPT !.repo_processed = FALSE]]
        ELSE IF svc.build # "chain"
        THEN [calls |-> <<"fetch", "build">>,
              shown |-> IF svc.build = "pending" THEN "pending" ELSE "error",
              s |-> [s EXCEPT !.code_documents = fetched, !.repo_processed = FALSE]]
        ELSE [calls |-> <<"fetch", "build">>, shown |-> "success",
              s |-> Session([py |-> "chain", docs |-> fetched.v], TRUE, current, fetched)]

IsNewRepositoryMutAlways(current, held) == TRUE

\* main.py:107 and main.py:115: "is this a new repository?"
IsNewRepository(current, held) == current # held

\* main.py:102-139: the repository URL block
UrlBlock(s, github_url, svc) ==
    LET info == extract_repo_info(github_url)
        owner == info[1]
        repo_name == info[2]
        valid == Truthy(owner) /\ Truthy(repo_name)
        current == IF valid THEN RepoId(owner, repo_name) ELSE None
        s1 == IF IsNewRepository(current, s.current_repo)
              THEN [s EXCEPT !.repo_processed = FALSE, !.rag_pipeline = None,
                             !.current_repo = current]
              ELSE s
    IN  IF valid
        THEN IF IsNewRepository(current, s1.current_repo)
             THEN ProcessRepository(s1, current, svc)
             ELSE [calls |-> <<>>, shown |-> "none", s |-> s1]
        ELSE [calls |-> <<>>, shown |-> "invalid_url", s |-> s1]

\* main.py:141-160: the question block never writes the session
QuestionBlock(s, query) ==
    IF s.rag_pipeline # None /\ query # "" THEN <<"query">> ELSE <<>>

\* main.py:54-160: one run of main() with the widget values w
Main(s, w, svc) ==
    IF s.repo_processed /\ w.new_repo_clicked
    THEN [calls |-> <<>>, shown |-> "rerun", s |-> Session(None, FALSE, None, None)]
    ELSE LET u == IF w.github_url # <<>>
                  THEN UrlBlock(s, w.github_url, svc)
                  ELSE [calls |-> <<>>, shown |-> "none", s |-> s]
         IN  [u EXCEPT !.calls = @ \o QuestionBlock(u.s, w.query)]

Run(w, svc) ==
    /\ unit = "session"
    /\ LET r == Main(Session(rag_pipeline, repo_processed, current_repo, code_documents),
                     w, svc)
       IN  /\ rag_pipeline' = r.s.rag_pipeline
           /\ repo_processed' = r.s.repo_processed
           /\ current_repo' = r.s.current_repo
           /\ code_documents' = r.s.code_documents
           /\ log' = r.calls
           /\ result' = [k |-> "shown", kind |-> r.shown, msg |-> <<>>, docs |-> <<>>]
    /\ widgets' = w
    /\ services' = svc
    /\ before' = Session(rag_pipeline, repo_processed, current_repo, code_documents)
    /\ UNCHANGED <<unit, ragVars, pc, fetchVars>>

\* main.py:72-83: the session state of a new session
InitSession ==
    /\ unit = "session"
    /\ rag_pipeline = None
    /\ repo_processed = FALSE
    /\ current_repo = None
    /\ code_documents = None
    /\ widgets = None /\ services = None /\ before = None
    /\ pc = "ui" /\ log = <<>> /\ result = NoResult
    /\ IdleRag /\ IdleFetch

NextSession == \E w \in WidgetValues, svc \in ServiceAnswers : Run(w, svc)

SpecSession == InitSession /\ [][NextSession]_vars

\* C1: a run of main() that is given a valid URL of a repository other than the
\* current one, with the fetch and the index build both succeeding, leaves the
\* session holding the pipeline built for that repository, repo_processed True
\* and current_repo the new owner/repo.
C1_NewRepositoryReplacesIndex ==
    [][ LET info == extract_repo_info(widgets'.github_url)
            new == RepoId(info[1], info[2])
        IN  (/\ unit = "session"
             /\ ~(repo_processed /\ widgets'.new_repo_clicked)
             /\ widgets'.github_url # <<>>
             /\ info[1] # None /\ info[2] # None
             /\ new # current_repo
             /\ services'.fetch = "documents" /\ services'.build = "chain")
            => /\ rag_pipeline' # None
               /\ repo_processed' = TRUE
               /\ current_repo' = new ]_vars

(***************************************************************************)
(* Properties of repository processing as a whole                          *)
(***************************************************************************)
\* the repository a URL names, as main() computes it (None when it names none)
RepoOf(github_url) ==
    LET info == extract_repo_info(github_url)
    IN  IF Truthy(info[1]) /\ Truthy(info[2]) THEN RepoId(info[1], info[2]) ELSE None

\* the last run of main() was given a URL naming a repository
SubmittedRepo ==
    /\ unit = "session" /\ widgets # None
    /\ result.kind # "rerun"
    /\ widgets.github_url # <<>>
    /\ RepoOf(widgets.github_url) # None

\* C11: a failed directory listing, of the root or of a subdirectory, ends
\* process_github_repo with an exception and no document list, however many
\* documents had been collected; a failed index build ends setup_rag_pipeline
\* with an exception and no chain; and a run of main() for a repository other
\* than the current one whose fetch or index build fails ends with
\* rag_pipeline None and repo_processed False and issues no question.
C11_FailureAbortsProcessing ==
    /\ unit = "fetch" =>
          /\ FailedListings # {} =>
                pc = "done" /\ result.k = "raise" /\ result.docs = <<>>
          /\ result.k = "return" => FailedListings = {}
    /\ (unit = "setup" /\ pc = "done") =>
          (result.k = "return" <=> (log[Len(log)].e = "store" /\ ~Failed(Len(log))))
    /\ (unit = "setup" /\ result.k = "raise") => result.docs = <<>>
    /\ (/\ SubmittedRepo
        /\ RepoOf(widgets.github_url) # before.current_repo
        /\ (services.fetch = "raise" \/ services.build # "chain"))
       => /\ rag_pipeline = None
          /\ repo_processed = FALSE
          /\ \A i \in 1..Len(log) : log[i] # "query"

\* a subdirectory listing failed after documents of the root had been collected
C11_Witness ==
    /\ unit = "fetch" /\ pc = "done" /\ tree = "T1"
    /\ \E i \in FailedListings : log[i].path = "src/deep"
    /\ documents # <<>>
    /\ result.k = "raise" /\ result.docs = <<>>

\* an owner and a repository name, both non-empty, follow the host in the URL
Parsable(github_url) ==
    \E i \in 1..(Len(github_url) - 2) :
        /\ github_url[i] \in GithubHosts
        /\ github_url[i + 1] # ""
        /\ github_url[i + 2] # ""

\* C12: a run of main() given a URL from which no non-empty owner and
\* repository name can be parsed shows the invalid-repository-URL error and
\* issues no request: no listing or download (fetch), no embedding (build), no
\* answering call (query).
C12_InvalidUrlRejectedBeforeAnyCall ==
    (/\ unit = "session" /\ widgets # None
     /\ result.kind # "rerun"
     /\ widgets.github_url # <<>>
     /\ ~Parsable(widgets.github_url))
    => /\ result.kind = "invalid_url"
       /\ log = <<>>

\* a URL of another host was submitted together with a question, all services up
C12_Witness ==
    /\ unit = "session" /\ widgets # None
    /\ widgets.github_url = <<"https:", "", "gitlab.com", "octo", "demo">>
    /\ widgets.query # ""
    /\ services.fetch = "documents" /\ services.build = "chain"
    /\ before.current_repo # None
    /\ result.kind = "invalid_url"
    /\ log = <<>>

Init == InitRag \/ InitFetch \/ InitSession
Next == NextRag \/ NextFetch \/ NextSession
Spec == Init /\ [][Next]_vars
====
